---------------------------- MODULE Spec2Model ----------------------------
(***************************************************************************)
(* A model of the harvest and change-detection scripts of                  *)
(* cms-lcd-lca-dataset:                                                    *)
(*   scripts/harvest_shard.py    the shard configuration and the work      *)
(*                               partitioner (_slice_for_shard)            *)
(*   scripts/compute_changes.py  normalize_current, compute_changes, main  *)
(*   scripts/diff_changes.py     compute_code_changes                      *)
(*   scripts/coverage_api.py     _get (with its tenacity retry),           *)
(*                               _try_table, _article_then_lcd_rows        *)
(*   scripts/harvest_shard.py,   the run of an orchestrator: configuration,*)
(*   scripts/run_once.py         discovery, the document loops, the outputs*)
(* Python strings are sequences of character codes, so that str.strip and  *)
(* the ordering used by sorted() are computed and not assumed.             *)
(***************************************************************************)
EXTENDS Integers, Sequences, FiniteSets, TLC

VARIABLES
    \* ---- harvest_shard.py: one shard process at a time ----
    report,       \* [lcds, arts]: the lists fetch_local_reports returns
    envTotal,     \* the SHARD_TOTAL environment variable of the fleet
    envMaxDocs,   \* the COVERAGE_MAX_DOCS environment variable of the fleet
    envIndex,     \* the SHARD_INDEX environment variable of this process
    hashseed,     \* the interpreter's per-process hash seed
    pcS,          \* where main() of harvest_shard is
    shard_index,  \* main's local shard_index
    shard_total,  \* main's local shard_total
    lcds,         \* main's local lcds (after the COVERAGE_MAX_DOCS cut)
    arts,         \* main's local arts
    lcds_shard,   \* main's local lcds_shard
    arts_shard,   \* main's local arts_shard
    outs,         \* what each shard process that has finished had sliced
    \* ---- compute_changes.py: main and the files it reads and writes ----
    argv,         \* [n, cur, prev]: sys.argv of the run (n = len(argv))
    current_csv,  \* the merged document_codes.csv: [kind, rows]
    prev_csv,     \* the previous codes_normalized.csv: [kind, header, rows]
    norm_file,    \* dataset/codes_normalized.csv as written by this run
    changes_file, \* dataset/codes_changes.csv as written by this run
    pcM,          \* where main() of compute_changes is
    rc,           \* what main returned
    \* ---- diff_changes.py: one call of compute_code_changes ----
    cc_prev,      \* the prev_rows argument
    cc_curr,      \* the curr_rows argument
    cc_changes,   \* the list returned
    pcC,          \* idle, or returned
    \* ---- coverage_api.py: one call of _get ----
    pcG,            \* idle, attempt, wait, returned, raised
    attempt_number, \* tenacity's attempt number of the call
    statuses,       \* the status of each request of the call
    got,            \* the outcome of the last attempt
    \* ---- coverage_api.py: one call of a getter ----
    pcR,          \* idle, loop, done, raised
    getter,       \* the getter called
    ids,          \* _ids_variants(input_ids)
    phase,        \* the endpoint _try_table is on: article, lcd
    ki,           \* the position of the loop in try_keys
    calls,        \* the calls of _get made, in order
    phase_ret,    \* what each call of _try_table gave
    ret,          \* what the getter gave
    \* ---- harvest_shard.py and run_once.py: one run of an orchestrator ----
    orchestrator, \* the script that runs: harvest_shard, run_once
    pcH,          \* idle, main, configured, loop, done, exit2, crashed
    r_env,        \* the environment of the process
    r_report,     \* the documents the report endpoints list
    r_http,       \* the HTTP requests the process has issued, in order
    r_index,      \* harvest_shard's shard_index
    r_total,      \* harvest_shard's shard_total
    r_lcds,       \* the LCDs to process (lcds_shard, lcd_rows)
    r_arts,       \* the Articles to process (arts_shard, art_rows)
    harvested,    \* the documents harvested so far, with what the API did
    code_rows,    \* the code rows of the run
    nocode_rows,  \* the zero-yield rows of the run
    emitted,      \* the two outputs exist
    r_files       \* the two output files of the process: none, open, closed

shardVars == <<report, envTotal, envMaxDocs, envIndex, hashseed, pcS,
               shard_index, shard_total, lcds, arts, lcds_shard, arts_shard,
               outs>>

diffVars == <<argv, current_csv, prev_csv, norm_file, changes_file, pcM, rc>>

codeDiffVars == <<cc_prev, cc_curr, cc_changes, pcC>>

getVars == <<pcG, attempt_number, statuses, got>>

resolverVars == <<pcR, getter, ids, phase, ki, calls, phase_ret, ret>>

runVars == <<orchestrator, pcH, r_env, r_report, r_http, r_index, r_total, r_lcds, r_arts,
             harvested, code_rows, nocode_rows, emitted, r_files>>

vars == <<shardVars, diffVars, codeDiffVars, getVars, resolverVars, runVars>>

\* What the actions of one script leave alone: the state of the others.
notShard == <<diffVars, codeDiffVars, getVars, resolverVars, runVars>>
notDiff == <<shardVars, codeDiffVars, getVars, resolverVars, runVars>>
notCodeDiff == <<shardVars, diffVars, getVars, resolverVars, runVars>>
notGet == <<shardVars, diffVars, codeDiffVars, resolverVars, runVars>>
notResolver == <<shardVars, diffVars, codeDiffVars, getVars, runVars>>
notRun == <<shardVars, diffVars, codeDiffVars, getVars, resolverVars>>

-----------------------------------------------------------------------------
(* Bounds of the model. *)

MaxLcds == 3
MaxArts == 1
MaxShards == 2
MaxRows == 2
MaxRunLcds == 1
MaxRunArts == 1
MaxPermuted == 3

-----------------------------------------------------------------------------
(* Python values. *)

\* Python's None where a string is expected; no string is equal to it.
None == <<-1>>

\* Strings are sequences of character codes; these are the ones used.
SP == 32
Str(c) == <<c>>
Empty == <<>>

\* str.isspace of one character: the blank, and \t \n \v \f \r.
IsSpace(c) == c = SP \/ c \in 9 .. 13

\* s.strip(): s without its leading and trailing whitespace.
RECURSIVE LStrip(_)
LStrip(s) == IF s # <<>> /\ IsSpace(Head(s)) THEN LStrip(Tail(s)) ELSE s
RECURSIVE RStrip(_)
RStrip(s) ==
    IF s # <<>> /\ IsSpace(s[Len(s)]) THEN RStrip(SubSeq(s, 1, Len(s) - 1)) ELSE s
Strip(s) == RStrip(LStrip(s))

\* a or b, for strings and None: b when a is None or empty.
PyOr(a, b) == IF a = None \/ a = <<>> THEN b ELSE a

\* d.get(k): the value of column k, None when the row has no such column.
Get(r, k) == IF k \in DOMAIN r THEN r[k] ELSE None

Min(a, b) == IF a < b THEN a ELSE b
Max(a, b) == IF a < b THEN b ELSE a

\* s[:n] of a list, for an integer n of either sign.
PyPrefix(s, n) ==
    IF n >= 0 THEN SubSeq(s, 1, Min(n, Len(s)))
    ELSE SubSeq(s, 1, Max(Len(s) + n, 0))

-----------------------------------------------------------------------------
(* harvest_shard.py *)

\* An environment variable: unset, blank, an integer literal or other text.
EnvUnset == [kind |-> "unset", val |-> 0]
EnvBlank == [kind |-> "blank", val |-> 0]
EnvJunk  == [kind |-> "junk", val |-> 0]
EnvNone  == [kind |-> "none", val |-> 0]
EnvOfInt(n) == [kind |-> "int", val |-> n]

\* _env(name, default): the default when the variable is unset or blank.
Env(v, default) ==
    IF v.kind \in {"unset", "blank"} THEN default ELSE v

\* _env_int(name, default): int(v), the default when v is missing or int()
\* raises. The result is an EnvOfInt or EnvNone.
EnvInt(v, default) ==
    LET e == Env(v, EnvNone)
    IN  IF e.kind = "int" THEN e ELSE default

\* x or d, for an integer or None x.
IntOr(x, d) == IF x.kind = "none" \/ x.val = 0 THEN d ELSE x.val

\* main, lines 97-100: shard_total as the run uses it. The mutant takes the
\* magnitude of a negative SHARD_TOTAL instead of falling back to 1.
ShardTotalAbs(v) ==
    LET t == IntOr(EnvInt(v, EnvOfInt(1)), 1)
    IN  IF t < 0 THEN 0 - t ELSE t

ShardTotalOf(v) ==
    LET t == IntOr(EnvInt(v, EnvOfInt(1)), 1)
    IN  IF t < 1 THEN 1 ELSE t

\* main, line 97.
ShardIndexOf(v) == IntOr(EnvInt(v, EnvOfInt(0)), 0)

\* main, line 101: the configuration main rejects with exit status 2.
InvalidShardConfig(ix, tot) == ix < 0 \/ ix >= tot

\* main, lines 114-116: the optional global limit, applied before sharding.
ApplyMaxDocs(items, v) ==
    LET m == EnvInt(v, EnvNone)
    IN  IF m.kind = "int" /\ m.val # 0 THEN PyPrefix(items, m.val) ELSE items

\* r = dict(row); r["_pos"] = pos: a copy of the stub with the _pos key set.
WithPos(row, pos) ==
    [k \in (DOMAIN row) \cup {"_pos"} |-> IF k = "_pos" THEN pos ELSE row[k]]

\* The loop of _slice_for_shard over enumerate(items), from position pos on:
\* the stubs at the positions (0-based) in keep, in list order, each copied
\* and tagged.
RECURSIVE SelectFrom(_, _, _)
SelectFrom(items, pos, keep) ==
    IF pos >= Len(items) THEN <<>>
    ELSE (IF pos \in keep THEN <<WithPos(items[pos + 1], pos)>> ELSE <<>>)
         \o SelectFrom(items, pos + 1, keep)

\* A stand-in for hash() of a stub under the process's hash seed.
StubHash(row, seed) ==
    seed + (IF "doc" \in DOMAIN row THEN row["doc"] ELSE 0)

\* Mutants of _slice_for_shard: contiguous blocks instead of a stride, and a
\* partition by the (per-process seeded) hash of the stub.
SliceByBlock(items, ix, tot) ==
    SelectFrom(items, 0, {pos \in 0 .. Len(items) - 1 : (pos \div tot) = ix})

SliceByHash(items, ix, tot) ==
    SelectFrom(items, 0, {pos \in 0 .. Len(items) - 1 :
                             (StubHash(items[pos + 1], hashseed) % tot) = ix})

\* _slice_for_shard(items, shard_index, shard_total).
SliceForShard(items, ix, tot) ==
    SelectFrom(items, 0, {pos \in 0 .. Len(items) - 1 : (pos % tot) = ix})

\* The stub at position pos of the input list once the loop has selected it.
\* r = dict(row) binds r to a new dict, so r["_pos"] = pos lands in the copy and
\* the stub of the list is as it was. The mutant is r = row: the assignment
\* lands in the stub itself.
StubAfterAliased(row, pos) == WithPos(row, pos)

StubAfter(row, pos) == row

\* The input list of _slice_for_shard after the call: the loop neither adds
\* nor removes nor reorders items; each selected stub is as StubAfter leaves it.
ItemsAfterSlice(items, ix, tot) ==
    [p \in 1 .. Len(items) |->
        IF ((p - 1) % tot) = ix THEN StubAfter(items[p], p - 1) ELSE items[p]]

\* The stubs the report endpoints may list. The second already carries a
\* _pos key of its own.
Stubs ==
    { [doc |-> 1, document_display_id |-> "L1"],
      [doc |-> 2, document_display_id |-> "A2", _pos |-> 7] }

RECURSIVE ListsUpTo(_, _)
ListsUpTo(S, n) ==
    IF n = 0 THEN {<<>>}
    ELSE LET shorter == ListsUpTo(S, n - 1)
         IN  shorter \cup {Append(l, x) : l \in {s \in shorter : Len(s) = n - 1}, x \in S}

EnvTotals ==
    {EnvUnset, EnvJunk, EnvOfInt(-2), EnvOfInt(0)} \cup {EnvOfInt(n) : n \in 1 .. MaxShards}
EnvIndexes == {EnvBlank} \cup {EnvOfInt(n) : n \in -1 .. MaxShards}
EnvMaxDocs == {EnvUnset, EnvOfInt(2)}
HashSeeds == {0, 1}

NoSlice == [ran |-> FALSE, seed |-> 0, total |-> 0, lcds |-> <<>>, arts |-> <<>>,
            lcds_shard |-> <<>>, arts_shard |-> <<>>]

ShardInit ==
    /\ report \in [lcds : ListsUpTo(Stubs, MaxLcds), arts : ListsUpTo(Stubs, MaxArts)]
    /\ envTotal \in EnvTotals
    /\ envMaxDocs \in EnvMaxDocs
    /\ envIndex = EnvUnset
    /\ hashseed = 0
    /\ pcS = "idle"
    /\ shard_index = 0
    /\ shard_total = 1
    /\ lcds = <<>>
    /\ arts = <<>>
    /\ lcds_shard = <<>>
    /\ arts_shard = <<>>
    /\ outs = [i \in 0 .. MaxShards - 1 |-> NoSlice]

\* A shard job starts: a new process, with its SHARD_INDEX and hash seed.
ShardStart ==
    /\ pcS \in {"idle", "exit2"}
    /\ \E v \in EnvIndexes, s \in HashSeeds :
          /\ envIndex' = v
          /\ hashseed' = s
    /\ pcS' = "main"
    /\ shard_index' = 0
    /\ shard_total' = 1
    /\ lcds' = <<>>
    /\ arts' = <<>>
    /\ lcds_shard' = <<>>
    /\ arts_shard' = <<>>
    /\ UNCHANGED <<report, envTotal, envMaxDocs, outs>>
    /\ UNCHANGED notShard

\* main, lines 97-103: read and validate the shard configuration.
ShardConfig ==
    /\ pcS = "main"
    /\ shard_index' = ShardIndexOf(envIndex)
    /\ shard_total' = ShardTotalOf(envTotal)
    /\ pcS' = IF InvalidShardConfig(shard_index', shard_total')
              THEN "exit2" ELSE "configured"
    /\ UNCHANGED <<report, envTotal, envMaxDocs, envIndex, hashseed, lcds, arts,
                   lcds_shard, arts_shard, outs>>
    /\ UNCHANGED notShard

\* main, lines 110-116: fetch the report lists and apply COVERAGE_MAX_DOCS.
ShardFetch ==
    /\ pcS = "configured"
    /\ lcds' = ApplyMaxDocs(report.lcds, envMaxDocs)
    /\ arts' = ApplyMaxDocs(report.arts, envMaxDocs)
    /\ pcS' = "fetched"
    /\ UNCHANGED <<report, envTotal, envMaxDocs, envIndex, hashseed, shard_index,
                   shard_total, lcds_shard, arts_shard, outs>>
    /\ UNCHANGED notShard

\* main, lines 119-120: the deterministic slice for this shard.
ShardSlice ==
    /\ pcS = "fetched"
    /\ lcds_shard' = SliceForShard(lcds, shard_index, shard_total)
    /\ arts_shard' = SliceForShard(arts, shard_index, shard_total)
    /\ lcds' = ItemsAfterSlice(lcds, shard_index, shard_total)
    /\ arts' = ItemsAfterSlice(arts, shard_index, shard_total)
    /\ pcS' = "sliced"
    /\ UNCHANGED <<report, envTotal, envMaxDocs, envIndex, hashseed, shard_index,
                   shard_total, outs>>
    /\ UNCHANGED notShard

\* The process ends; what it had sliced is kept for comparison.
ShardFinish ==
    /\ pcS = "sliced"
    /\ outs' = [outs EXCEPT ![shard_index] =
                   [ran |-> TRUE, seed |-> hashseed, total |-> shard_total,
                    lcds |-> lcds, arts |-> arts,
                    lcds_shard |-> lcds_shard, arts_shard |-> arts_shard]]
    /\ pcS' = "idle"
    /\ UNCHANGED <<report, envTotal, envMaxDocs, envIndex, hashseed, shard_index,
                   shard_total, lcds, arts, lcds_shard, arts_shard>>
    /\ UNCHANGED notShard

NextShard ==
    \/ ShardStart
    \/ ShardConfig
    \/ ShardFetch
    \/ ShardSlice
    \/ ShardFinish

-----------------------------------------------------------------------------
(* compute_changes.py *)

NORM_HEADER == <<"doc_type", "doc_id", "code_system", "code", "description", "coverage_flag">>
CHG_HEADER == <<"change_type", "doc_type", "doc_id", "code_system", "code", "prev_flag", "curr_flag">>

\* A Python dict is the sequence of its items, in insertion order.
DictHas(d, k) == \E i \in 1 .. Len(d) : d[i].k = k

\* d.get(k): None when k is no key of d.
DictGet(d, k) ==
    IF DictHas(d, k) THEN d[CHOOSE i \in 1 .. Len(d) : d[i].k = k].v ELSE None

\* Mutant of the assignment: d.setdefault(k, v), the first value is kept.
DictSetDefault(d, k, v) ==
    IF DictHas(d, k) THEN d ELSE Append(d, [k |-> k, v |-> v])

\* d[k] = v: a key that is present keeps its place.
DictSet(d, k, v) ==
    IF DictHas(d, k)
    THEN [i \in 1 .. Len(d) |-> IF d[i].k = k THEN [k |-> k, v |-> v] ELSE d[i]]
    ELSE Append(d, [k |-> k, v |-> v])

DictKeys(d) == {d[i].k : i \in 1 .. Len(d)}

\* a < b for two strings: by character code, a proper prefix first.
StrLess(a, b) ==
    \E i \in 1 .. Min(Len(a), Len(b)) + 1 :
        /\ \A j \in 1 .. i - 1 : a[j] = b[j]
        /\ \/ i <= Len(a) /\ i <= Len(b) /\ a[i] < b[i]
           \/ i = Len(a) + 1 /\ i <= Len(b)

\* a < b for two tuples of strings of the same length.
TupleLess(a, b) ==
    \E i \in 1 .. Len(a) :
        /\ \A j \in 1 .. i - 1 : a[j] = b[j]
        /\ StrLess(a[i], b[i])

\* Mutant of sorted(): the keys in no particular order (here, descending).
RECURSIVE Unsorted(_)
Unsorted(S) ==
    IF S = {} THEN <<>>
    ELSE LET m == CHOOSE x \in S : \A y \in S \ {x} : TupleLess(y, x)
         IN  <<m>> \o Unsorted(S \ {m})

\* sorted(S) of a set of tuples of strings.
RECURSIVE Sorted(_)
Sorted(S) ==
    IF S = {} THEN <<>>
    ELSE LET m == CHOOSE x \in S : \A y \in S \ {x} : TupleLess(x, y)
         IN  <<m>> \o Sorted(S \ {m})

\* normalize_current, lines 44-63: the normalized rows of the raw rows src,
\* a row without doc_id or code being skipped.
RECURSIVE NormalizeRows(_)
NormalizeRows(src) ==
    IF src = <<>> THEN <<>>
    ELSE LET row == Head(src)
             doc_type == Strip(PyOr(PyOr(Get(row, "document_type"), Get(row, "doc_type")), Empty))
             doc_id == Strip(PyOr(PyOr(PyOr(Get(row, "document_id"), Get(row, "doc_id")),
                                       Get(row, "article_id")), Empty))
             code_system == Strip(PyOr(Get(row, "code_system"), Empty))
             code == Strip(PyOr(Get(row, "code"), Empty))
             description == Strip(PyOr(Get(row, "description"), Empty))
             coverage_flag == Strip(PyOr(Get(row, "coverage_flag"), Empty))
         IN  (IF doc_id = <<>> \/ code = <<>> THEN <<>>
              ELSE << [doc_type |-> doc_type, doc_id |-> doc_id,
                       code_system |-> code_system, code |-> code,
                       description |-> description, coverage_flag |-> coverage_flag] >>)
             \o NormalizeRows(Tail(src))

\* compute_changes.key(r).
ChangeKey(r) ==
    << Strip(PyOr(Get(r, "doc_type"), Empty)), Strip(PyOr(Get(r, "doc_id"), Empty)),
       Strip(PyOr(Get(r, "code_system"), Empty)), Strip(PyOr(Get(r, "code"), Empty)) >>

\* compute_changes, lines 80-83: the key -> coverage_flag map of a snapshot.
RECURSIVE FlagMap(_, _)
FlagMap(rows, d) ==
    IF rows = <<>> THEN d
    ELSE FlagMap(Tail(rows),
                 DictSet(d, ChangeKey(Head(rows)),
                         Strip(PyOr(Get(Head(rows), "coverage_flag"), Empty))))

\* The change types, as strings: "Added", "Removed", "FlagChanged".
Added == <<65, 100, 100, 101, 100>>
Removed == <<82, 101, 109, 111, 118, 101, 100>>
FlagChanged == <<70, 108, 97, 103, 67, 104, 97, 110, 103, 101, 100>>

\* compute_changes, lines 89-98: the change type of one key, empty for none.
\* The mutant reports a key whose flag is the same in both as FlagChanged.
ChangeTypeAlways(pf, cf) ==
    IF pf = None /\ cf # None THEN Added
    ELSE IF pf # None /\ cf = None THEN Removed
    ELSE FlagChanged

\* Mutant: without the Removed branch, a key that is gone is a FlagChanged.
ChangeTypeNoRemoved(pf, cf) ==
    IF pf = None /\ cf # None THEN Added
    ELSE IF pf # cf THEN FlagChanged
    ELSE Empty

ChangeType(pf, cf) ==
    IF pf = None /\ cf # None THEN Added
    ELSE IF pf # None /\ cf = None THEN Removed
    ELSE IF pf # cf THEN FlagChanged
    ELSE Empty

\* compute_changes, lines 88-109: the loop over the keys in order.
RECURSIVE ChangesOver(_, _, _)
ChangesOver(keys, prev_map, curr_map) ==
    IF keys = <<>> THEN <<>>
    ELSE LET k == Head(keys)
             pf == DictGet(prev_map, k)
             cf == DictGet(curr_map, k)
             ct == ChangeType(pf, cf)
         IN  (IF ct = Empty THEN <<>>
              ELSE << [change_type |-> ct, doc_type |-> k[1], doc_id |-> k[2],
                       code_system |-> k[3], code |-> k[4],
                       prev_flag |-> IF pf = None THEN Empty ELSE pf,
                       curr_flag |-> IF cf = None THEN Empty ELSE cf] >>)
             \o ChangesOver(Tail(keys), prev_map, curr_map)

\* compute_changes(prev_rows, curr_rows).
ComputeChanges(prev_rows, curr_rows) ==
    LET prev_map == FlagMap(prev_rows, <<>>)
        curr_map == FlagMap(curr_rows, <<>>)
        all_keys == DictKeys(prev_map) \cup DictKeys(curr_map)
    IN  ChangesOver(Sorted(all_keys), prev_map, curr_map)

\* write_csv_rows and read_csv_rows: a CSV file is its header and its rows;
\* a cell that is None is written as the empty string.
WriteCsv(header, rows) ==
    [kind |-> "csv", header |-> header,
     rows |-> [i \in 1 .. Len(rows) |->
                 [c \in {header[j] : j \in 1 .. Len(header)} |-> PyOr(Get(rows[i], c), Empty)]]]

ReadCsv(file) == file.rows

NoFile == [kind |-> "missing", header |-> <<>>, rows |-> <<>>]
ZeroBytes == [kind |-> "empty", header |-> <<>>, rows |-> <<>>]

\* main, line 129. The mutant forgets that a file of size 0 is no baseline.
HasBaselineNoSize(a, prev) == a.prev /\ prev.kind # "missing"

HasBaseline(a, prev) == a.prev /\ prev.kind # "missing" /\ prev.kind # "empty"

\* The raw rows a merged document_codes.csv may hold: the columns
\* normalize_current reads, None for a column the file does not have.
RawRow(dt, dt2, did, did2, aid, cs, c, desc, flag) ==
    [document_type |-> dt, doc_type |-> dt2, document_id |-> did, doc_id |-> did2,
     article_id |-> aid, code_system |-> cs, code |-> c, description |-> desc,
     coverage_flag |-> flag]

ChA == 65
ChL == 76
Ch1 == 49
Ch2 == 50
ChE == 69
ChH == 72
ChI == 73
Chc == 99
Chn == 110

RawRows ==
    { \* Article 2, code E, covered
      RawRow(Str(ChA), None, Str(Ch2), None, None, Str(ChI), Str(ChE), None, Str(Chc)),
      \* the same key, noncovered
      RawRow(Str(ChA), None, Str(Ch2), None, None, Str(ChI), Str(ChE), None, Str(Chn)),
      \* the same key and flag as the first, padded with blanks
      RawRow(<<SP, ChA>>, None, <<Ch2, SP>>, None, None, Str(ChI), <<SP, ChE, SP>>, None, <<Chc, SP>>),
      \* Article 1 through the article_id column, code H, no flag column
      RawRow(Str(ChA), None, None, Empty, Str(Ch1), Str(ChI), Str(ChH), Str(ChH), None),
      \* an LCD through the doc_type and doc_id columns
      RawRow(Empty, Str(ChL), None, Str(Ch1), None, Empty, Str(ChE), None, Str(Chc)),
      \* a row as harvest_shard writes it: no code column
      RawRow(Str(ChA), None, Str(Ch1), None, None, None, None, None, None) }

CurrentFiles ==
    {[kind |-> "missing", rows |-> <<>>]}
    \cup {[kind |-> "csv", rows |-> l] : l \in ListsUpTo(RawRows, MaxRows)}

NotWritten == [kind |-> "unwritten", header |-> <<>>, rows |-> <<>>]

NoRc == -1

DiffInit ==
    /\ argv = [n |-> 1, prev |-> FALSE]
    /\ current_csv = [kind |-> "missing", rows |-> <<>>]
    /\ prev_csv \in {NoFile, ZeroBytes}
    /\ norm_file = NotWritten
    /\ changes_file = NotWritten
    /\ pcM = "idle"
    /\ rc = NoRc

\* The workflow starts compute_changes on a merged harvest, in a fresh
\* checkout: python -m scripts.compute_changes [<current> [<prev>]].
MainStart ==
    /\ pcM = "idle"
    /\ \E cur \in CurrentFiles, n \in 1 .. 3 :
          /\ current_csv' = cur
          /\ argv' = [n |-> n, prev |-> n >= 3]
    /\ pcM' = "main"
    /\ UNCHANGED <<prev_csv, norm_file, changes_file, rc>>
    /\ UNCHANGED notDiff

\* main, lines 114-116: no <current> argument.
MainUsage ==
    /\ pcM = "main"
    /\ argv.n < 2
    /\ rc' = 2
    /\ pcM' = "done"
    /\ UNCHANGED <<argv, current_csv, prev_csv, norm_file, changes_file>>
    /\ UNCHANGED notDiff

\* main, lines 118-125: normalize the current harvest and write it. Opening a
\* file that does not exist raises.
MainNormalize ==
    /\ pcM = "main"
    /\ argv.n >= 2
    /\ IF current_csv.kind = "missing"
       THEN /\ pcM' = "raised"
            /\ UNCHANGED norm_file
       ELSE /\ norm_file' = WriteCsv(NORM_HEADER, NormalizeRows(current_csv.rows))
            /\ pcM' = "normalized"
    /\ UNCHANGED <<argv, current_csv, prev_csv, changes_file, rc>>
    /\ UNCHANGED notDiff

\* main, lines 128-138: the change log, against the baseline when there is one.
MainChanges ==
    /\ pcM = "normalized"
    /\ changes_file' =
          IF HasBaseline(argv, prev_csv)
          THEN WriteCsv(CHG_HEADER,
                        ComputeChanges(ReadCsv(prev_csv), NormalizeRows(current_csv.rows)))
          ELSE WriteCsv(CHG_HEADER, <<>>)
    /\ rc' = 0
    /\ pcM' = "done"
    /\ UNCHANGED <<argv, current_csv, prev_csv, norm_file>>
    /\ UNCHANGED notDiff

\* The workflow keeps the snapshot this run wrote as the baseline of the next
\* run, or goes on with no usable baseline; the next run starts in a fresh
\* checkout.
KeepBaseline ==
    /\ pcM \in {"done", "raised"}
    /\ \/ norm_file.kind = "csv" /\ prev_csv' = norm_file
       \/ prev_csv' \in {NoFile, ZeroBytes}
       \/ UNCHANGED prev_csv
    /\ norm_file' = NotWritten
    /\ changes_file' = NotWritten
    /\ rc' = NoRc
    /\ argv' = [n |-> 1, prev |-> FALSE]
    /\ current_csv' = [kind |-> "missing", rows |-> <<>>]
    /\ pcM' = "idle"
    /\ UNCHANGED notDiff

NextDiff ==
    \/ MainStart
    \/ MainUsage
    \/ MainNormalize
    \/ MainChanges
    \/ KeepBaseline

-----------------------------------------------------------------------------
(* diff_changes.py *)

\* d.get(k, default).
GetOr(r, k, default) == IF k \in DOMAIN r THEN r[k] ELSE default

\* str(v): a string is itself, None is "None".
StrOf(v) == IF v = None THEN <<78, 111, 110, 101>> ELSE v

\* _key(r): (article_id, code_system, code).
CodeKey(r) ==
    << StrOf(GetOr(r, "article_id", Empty)), StrOf(GetOr(r, "code_system", Empty)),
       StrOf(GetOr(r, "code", Empty)) >>

\* compute_code_changes, lines 20-23: the key -> row map of a snapshot.
RECURSIVE RowMap(_, _)
RowMap(rows, d) ==
    IF rows = <<>> THEN d
    ELSE RowMap(Tail(rows), DictSet(d, CodeKey(Head(rows)), Head(rows)))

\* compute_code_changes, lines 28-53: the loop over curr_map.items(), from
\* item i on.
RECURSIVE AddedOrChanged(_, _, _)
AddedOrChanged(curr_map, prev_map, i) ==
    IF i > Len(curr_map) THEN <<>>
    ELSE LET k == curr_map[i].k
             curr == curr_map[i].v
             prev == DictGet(prev_map, k)
             pf == PyOr(GetOr(prev, "coverage_flag", Empty), Empty)
             cf == PyOr(GetOr(curr, "coverage_flag", Empty), Empty)
         IN  (IF ~DictHas(prev_map, k)
              THEN << [change_type |-> Added,
                       article_id |-> GetOr(curr, "article_id", Empty),
                       code_system |-> GetOr(curr, "code_system", Empty),
                       code |-> GetOr(curr, "code", Empty),
                       prev_flag |-> Empty,
                       curr_flag |-> GetOr(curr, "coverage_flag", Empty)] >>
              ELSE IF pf # cf
              THEN << [change_type |-> FlagChanged,
                       article_id |-> GetOr(curr, "article_id", Empty),
                       code_system |-> GetOr(curr, "code_system", Empty),
                       code |-> GetOr(curr, "code", Empty),
                       prev_flag |-> pf,
                       curr_flag |-> cf] >>
              ELSE <<>>)
             \o AddedOrChanged(curr_map, prev_map, i + 1)

\* compute_code_changes, lines 56-67: the loop over prev_map.items().
RECURSIVE RemovedFrom(_, _, _)
RemovedFrom(prev_map, curr_map, i) ==
    IF i > Len(prev_map) THEN <<>>
    ELSE LET k == prev_map[i].k
             prev == prev_map[i].v
         IN  (IF ~DictHas(curr_map, k)
              THEN << [change_type |-> Removed,
                       article_id |-> GetOr(prev, "article_id", Empty),
                       code_system |-> GetOr(prev, "code_system", Empty),
                       code |-> GetOr(prev, "code", Empty),
                       prev_flag |-> PyOr(GetOr(prev, "coverage_flag", Empty), Empty),
                       curr_flag |-> Empty] >>
              ELSE <<>>)
             \o RemovedFrom(prev_map, curr_map, i + 1)

\* compute_code_changes(prev_rows, curr_rows).
ComputeCodeChanges(prev_rows, curr_rows) ==
    LET prev_map == RowMap(prev_rows, <<>>)
        curr_map == RowMap(curr_rows, <<>>)
    IN  AddedOrChanged(curr_map, prev_map, 1) \o RemovedFrom(prev_map, curr_map, 1)

\* The article code rows a caller may pass.
ArticleRow(aid, cs, c, flag) ==
    [article_id |-> aid, code_system |-> cs, code |-> c, coverage_flag |-> flag]

ArticleRows ==
    { ArticleRow(Str(Ch1), Str(ChI), Str(ChE), Str(Chc)),
      ArticleRow(Str(Ch1), Str(ChI), Str(ChE), Str(Chn)),
      ArticleRow(Str(Ch2), Str(ChI), Str(ChE), Str(Chc)),
      ArticleRow(Str(Ch1), Str(ChI), Str(ChH), None) }

CodeDiffInit ==
    /\ cc_prev \in ListsUpTo(ArticleRows, MaxRows)
    /\ cc_curr \in ListsUpTo(ArticleRows, MaxRows)
    /\ cc_changes = <<>>
    /\ pcC = "idle"

\* A caller diffs two lists of article code rows.
CodeDiffCall ==
    /\ pcC = "idle"
    /\ cc_changes' = ComputeCodeChanges(cc_prev, cc_curr)
    /\ pcC' = "returned"
    /\ UNCHANGED <<cc_prev, cc_curr>>
    /\ UNCHANGED notCodeDiff

\* The caller goes on: the current rows become the previous ones, and new
\* current rows arrive.
CodeDiffAgain ==
    /\ pcC = "returned"
    /\ cc_prev' = cc_curr
    /\ cc_curr' \in ListsUpTo(ArticleRows, MaxRows)
    /\ cc_changes' = <<>>
    /\ pcC' = "idle"
    /\ UNCHANGED notCodeDiff

NextCodeDiff ==
    \/ CodeDiffCall
    \/ CodeDiffAgain

-----------------------------------------------------------------------------
(* coverage_api.py: the transport, _get under its tenacity retry *)

\* stop_after_attempt(4), line 32.
StopAttempts == 4

\* What the server answers to one HTTP request: a status (0 for a request
\* that times out or cannot connect) and, for a 200, the body: a JSON object
\* {"meta": ..., "data": ...} whose data is a list of rows, an empty list,
\* null, or something that is no list.
FailStatuses == {0, 400, 401, 403, 404, 429, 500, 503}
DataKinds == {"rows", "emptylist", "null", "dict"}
Responses ==
    {[status |-> st, data |-> "none"] : st \in FailStatuses}
    \cup {[status |-> 200, data |-> dk] : dk \in DataKinds}

\* One execution of the body of _get, lines 38-58: the payload is returned
\* for a 2xx; an HTTP error status (raise_for_status) and a failed request
\* (requests.RequestException) both raise _HTTPError.
AttemptOutcome(resp) ==
    IF resp.status = 200 THEN [kind |-> "data", data |-> resp.data]
    ELSE [kind |-> "HTTPError", data |-> "none"]

\* retry_if_exception_type(_HTTPError), line 34.
IsRetryable(outcome) == outcome.kind = "HTTPError"

\* Mutant of the stop condition: one attempt more before giving up.
ShouldStopLate(n) == n >= StopAttempts + 1

\* stop_after_attempt(4): whether the attempt that just failed was the last.
ShouldStop(n) == n >= StopAttempts

\* The token refreshes a call of _get performs between its attempts: the body
\* of _get, lines 37-58, and its retry decorator hold no refresh of any kind.
Refreshes == 0

GetInit ==
    /\ pcG = "idle"
    /\ attempt_number = 0
    /\ statuses = <<>>
    /\ got = [kind |-> "none", data |-> "none"]

\* A caller calls _get(path, params, timeout).
GetCall ==
    /\ pcG = "idle"
    /\ pcG' = "attempt"
    /\ attempt_number' = 1
    /\ statuses' = <<>>
    /\ got' = [kind |-> "none", data |-> "none"]
    /\ UNCHANGED notGet

\* One attempt: the request is sent and answered. A payload is returned; an
\* _HTTPError is retried unless this was the last attempt, and then re-raised
\* (reraise=True).
GetAttempt ==
    /\ pcG = "attempt"
    /\ \E resp \in Responses :
          LET outcome == AttemptOutcome(resp)
          IN  /\ statuses' = Append(statuses, resp.status)
              /\ got' = outcome
              /\ pcG' = IF ~IsRetryable(outcome) THEN "returned"
                        ELSE IF ShouldStop(attempt_number) THEN "raised"
                        ELSE "wait"
    /\ UNCHANGED attempt_number
    /\ UNCHANGED notGet

\* wait_exponential(multiplier=0.25, min=0.25, max=2) has slept: next attempt.
GetRetry ==
    /\ pcG = "wait"
    /\ attempt_number' = attempt_number + 1
    /\ pcG' = "attempt"
    /\ UNCHANGED <<statuses, got>>
    /\ UNCHANGED notGet

\* The caller has the payload or the exception.
GetDone ==
    /\ pcG \in {"returned", "raised"}
    /\ pcG' = "idle"
    /\ attempt_number' = 0
    /\ UNCHANGED <<statuses, got>>
    /\ UNCHANGED notGet

NextGet ==
    \/ GetCall
    \/ GetAttempt
    \/ GetRetry
    \/ GetDone

\* A whole call of _get against a server that answers the n-th request of the
\* call with script[n]: what the call returns or raises, and the number of
\* requests it made.
RECURSIVE GetRun(_, _)
GetRun(script, n) ==
    LET outcome == AttemptOutcome(script[n])
    IN  IF ~IsRetryable(outcome) \/ ShouldStop(n)
        THEN [kind |-> outcome.kind, data |-> outcome.data, requests |-> n]
        ELSE GetRun(script, n + 1)

-----------------------------------------------------------------------------
(* coverage_api.py: the resolvers, _ids_variants, _page_rows, _try_table *)

ChLowL == 108
Ch7 == 55
Ch8 == 56

\* str.upper() on the letters a to z.
Upper(c) == IF c >= 97 /\ c <= 122 THEN c - 32 ELSE c

\* token.upper().startswith(c), for an upper-case letter c.
StartsWith(token, c) == token # <<>> /\ Upper(token[1]) = c

\* _ids_variants, lines 66-91: a token is a display id when it starts with A
\* or L and otherwise both numeric ids; of a mapping the three id keys are
\* read, "id" standing for both numeric ids when neither is a key.
IdsVariants(input_ids) ==
    IF input_ids.t = "token"
    THEN LET token == input_ids.s
         IN  IF StartsWith(token, ChA) \/ StartsWith(token, ChL)
             THEN [article_id |-> None, document_id |-> None,
                   document_display_id |-> token]
             ELSE [article_id |-> token, document_id |-> token,
                   document_display_id |-> None]
    ELSE LET d == input_ids.d
             alias == /\ "id" \in DOMAIN d
                      /\ "document_id" \notin DOMAIN d
                      /\ "article_id" \notin DOMAIN d
         IN  [article_id |-> IF alias THEN d.id ELSE Get(d, "article_id"),
              document_id |-> IF alias THEN d.id ELSE Get(d, "document_id"),
              document_display_id |-> Get(d, "document_display_id")]

\* The inputs the getters are called with: tokens and mappings.
InputIds ==
    {[t |-> "token", s |-> <<ChA, Ch1>>],
     [t |-> "token", s |-> <<ChLowL, Ch2>>],
     [t |-> "token", s |-> <<SP, ChL, Ch2>>],
     [t |-> "token", s |-> <<Ch7>>],
     [t |-> "dict", d |-> [article_id |-> <<Ch7>>]],
     [t |-> "dict", d |-> [document_id |-> <<Ch8>>, document_display_id |-> <<ChL, Ch2>>]],
     [t |-> "dict", d |-> [id |-> <<Ch7>>]],
     [t |-> "dict", d |-> [id |-> <<Ch7>>, article_id |-> Empty]],
     [t |-> "dict", d |-> [article_id |-> Empty, document_id |-> None,
                           document_display_id |-> <<ChA, Ch1>>]],
     [t |-> "dict", d |-> [title |-> <<ChA>>]],
     [t |-> "dict", d |-> [article_id |-> <<Ch7>>, document_id |-> <<Ch8>>,
                           document_display_id |-> <<ChA, Ch1>>]]}

\* _is_lcd and _is_article, lines 93-99: the family a display id names.
IsLcd(i) == StartsWith(PyOr(i.document_display_id, Empty), ChL)
IsArticle(i) == StartsWith(PyOr(i.document_display_id, Empty), ChA)

\* Mutant of the test of line 210: every key of try_keys is asked for.
TruthyAlways(v) == TRUE

\* Python truthiness of an id value: None and "" are falsy.
Truthy(v) == v # None /\ v # Empty

\* params = {key: ids[key]}, line 212: the query parameters of the request.
Params(i, key) == [k \in {key} |-> i[k]]

\* The rows the server holds for one request: they name the request.
RowsOf(path, key, value) == <<[path |-> path, key |-> key, value |-> value]>>

\* _page_rows, lines 196-204: the rows of a payload; a data that is null or
\* no list gives no rows.
PageRows(data, path, key, value) ==
    IF data = "rows" THEN RowsOf(path, key, value) ELSE <<>>

\* The getters modelled: get_codes_table_any, lines 247-252, and
\* get_icd10_covered_any, lines 254-256 (through _article_then_lcd_rows).
Getters == {"get_codes_table_any", "get_icd10_covered_any"}

ArticlePath(g) ==
    IF g = "get_codes_table_any"
    THEN "/data/article/code-table" ELSE "/data/article/icd10-covered"

LcdPath(g) ==
    IF g = "get_codes_table_any"
    THEN "/data/final-lcd/code-table" ELSE "/data/final-lcd/icd10-covered"

PathOf(g, ph) == IF ph = "article" THEN ArticlePath(g) ELSE LcdPath(g)

\* Mutant of the try_keys: the display id is tried first.
TryKeysDisplayFirst(ph) ==
    IF ph = "article"
    THEN <<"document_display_id", "article_id", "document_id">>
    ELSE <<"document_display_id", "document_id">>

\* try_keys of the two _try_table calls, lines 226 and 230.
TryKeys(ph) ==
    IF ph = "article"
    THEN <<"article_id", "document_id", "document_display_id">>
    ELSE <<"document_id", "document_display_id">>

\* How the server answers the requests of one call of _get: the answer to
\* each request, as many as the call can make.
Fail4(a, b) ==
    <<[status |-> a, data |-> "none"], [status |-> b, data |-> "none"],
      [status |-> a, data |-> "none"], [status |-> b, data |-> "none"]>>

Scripts ==
    {<<[status |-> 200, data |-> dk]>> : dk \in DataKinds}
    \cup {<<[status |-> 503, data |-> "none"], [status |-> 200, data |-> "rows"]>>}
    \cup {Fail4(404, 404), Fail4(429, 500), Fail4(0, 0)}

\* Mutant of the except clause of _try_table: the error is not caught.
CatchesNothing(kind) == FALSE

\* except _HTTPError: continue, lines 214-216.
Catches(kind) == kind = "HTTPError"

\* Mutant of the return of _try_table: rows or not, the loop goes on.
ReturnsNever(rows) == FALSE

\* if rows: return rows, lines 218-219.
ReturnsRows(rows) == rows # <<>>

NoRet == [kind |-> "none", rows |-> <<>>]

ResolverInit ==
    /\ pcR = "idle"
    /\ getter = "none"
    /\ ids = IdsVariants([t |-> "dict", d |-> [title |-> <<ChA>>]])
    /\ phase = "none"
    /\ ki = 0
    /\ calls = <<>>
    /\ phase_ret = [article |-> NoRet, lcd |-> NoRet]
    /\ ret = NoRet

\* A getter is called: ids = _ids_variants(input_ids), and the first
\* _try_table starts on the article endpoint.
ResolveStart ==
    /\ pcR = "idle"
    /\ \E g \in Getters, input_ids \in InputIds :
          /\ getter' = g
          /\ ids' = IdsVariants(input_ids)
    /\ phase' = "article"
    /\ ki' = 1
    /\ calls' = <<>>
    /\ phase_ret' = [article |-> NoRet, lcd |-> NoRet]
    /\ ret' = NoRet
    /\ pcR' = "loop"
    /\ UNCHANGED notResolver

\* The call of _try_table in progress returns rows to the getter: rows of the
\* article endpoint are the getter's answer, none sends it to the LCD
\* endpoint, and what the LCD endpoint gives is the answer.
TableReturns(rows) ==
    /\ phase_ret' = [phase_ret EXCEPT ![phase] = [kind |-> "rows", rows |-> rows]]
    /\ IF phase = "article" /\ rows = <<>>
       THEN /\ phase' = "lcd"
            /\ ki' = 1
            /\ pcR' = "loop"
            /\ UNCHANGED ret
       ELSE /\ pcR' = "done"
            /\ ret' = [kind |-> "rows", rows |-> rows]
            /\ UNCHANGED <<phase, ki>>

\* The call of _try_table in progress raises: nothing above it catches an
\* _HTTPError but the except Exception around the LCD call of
\* _article_then_lcd_rows, lines 229-232, which answers [].
TableRaises ==
    IF phase = "lcd" /\ getter = "get_icd10_covered_any"
    THEN /\ pcR' = "done"
         /\ ret' = [kind |-> "rows", rows |-> <<>>]
         /\ phase_ret' = [phase_ret EXCEPT ![phase] = [kind |-> "raised", rows |-> <<>>]]
         /\ UNCHANGED <<phase, ki>>
    ELSE /\ pcR' = "raised"
         /\ ret' = [kind |-> "raised", rows |-> <<>>]
         /\ phase_ret' = [phase_ret EXCEPT ![phase] = [kind |-> "raised", rows |-> <<>>]]
         /\ UNCHANGED <<phase, ki>>

\* for key in try_keys: a key without a value is passed over, line 210.
TryKeySkip ==
    /\ pcR = "loop"
    /\ ki <= Len(TryKeys(phase))
    /\ ~Truthy(ids[TryKeys(phase)[ki]])
    /\ ki' = ki + 1
    /\ UNCHANGED <<getter, ids, phase, calls, phase_ret, ret, pcR>>
    /\ UNCHANGED notResolver

\* for key in try_keys: a key with a value is asked for, lines 212-219. The
\* call of _get is one transport call, retries included; its _HTTPError is
\* caught and the loop goes on, its rows end the loop when there are any.
TryKeyGet ==
    /\ pcR = "loop"
    /\ ki <= Len(TryKeys(phase))
    /\ Truthy(ids[TryKeys(phase)[ki]])
    /\ \E script \in Scripts :
          LET key == TryKeys(phase)[ki]
              path == PathOf(getter, phase)
              g == GetRun(script, 1)
              rows == IF g.kind = "data"
                      THEN PageRows(g.data, path, key, ids[key]) ELSE <<>>
          IN  /\ calls' = Append(calls, [phase |-> phase, path |-> path, key |-> key,
                                         value |-> ids[key], params |-> Params(ids, key),
                                         kind |-> g.kind,
                                         requests |-> g.requests, rows |-> rows])
              /\ IF g.kind = "HTTPError"
                 THEN IF Catches(g.kind)
                      THEN /\ ki' = ki + 1
                           /\ UNCHANGED <<phase, phase_ret, ret, pcR>>
                      ELSE TableRaises
                 ELSE IF ReturnsRows(rows)
                      THEN TableReturns(rows)
                      ELSE /\ ki' = ki + 1
                           /\ UNCHANGED <<phase, phase_ret, ret, pcR>>
    /\ UNCHANGED <<getter, ids>>
    /\ UNCHANGED notResolver

\* The loop is over without rows: return [], line 221.
TryExhausted ==
    /\ pcR = "loop"
    /\ ki > Len(TryKeys(phase))
    /\ TableReturns(<<>>)
    /\ UNCHANGED <<getter, ids, calls>>
    /\ UNCHANGED notResolver

\* The caller has the getter's answer.
ResolveDone ==
    /\ pcR \in {"done", "raised"}
    /\ pcR' = "idle"
    /\ UNCHANGED <<getter, ids, phase, ki, calls, phase_ret, ret>>
    /\ UNCHANGED notResolver

NextResolver ==
    \/ ResolveStart
    \/ TryKeySkip
    \/ TryKeyGet
    \/ TryExhausted
    \/ ResolveDone

-----------------------------------------------------------------------------
(* harvest_shard.py and run_once.py: one run of an orchestrator, from the   *)
(* start of the process to its end. The functions the two scripts import    *)
(* from coverage_api that this repository does not hold (fetch_local_reports,*)
(* harvest_lcd_endpoints, harvest_article_endpoints, the get_article_* and   *)
(* get_lcd_* getters) are taken as the specification describes them: a row   *)
(* family gives its rows, and no rows when it is empty or its requests fail. *)

Orchestrators == {"harvest_shard", "run_once"}

\* run_once.py lines 155-163 and 165-169: the labels of the row families.
ARTICLE_ENDPOINTS ==
    <<"code-table", "icd10-covered", "icd10-noncovered", "hcpc-code",
      "hcpc-modifier", "revenue-code", "bill-codes">>
LCD_ENDPOINTS == <<"hcpc-code", "icd10-covered", "icd10-noncovered">>

EndpointsOf(doc_type) == IF doc_type = "LCD" THEN LCD_ENDPOINTS ELSE ARTICLE_ENDPOINTS

\* What the remote API does with the requests of one row family of one
\* document: it has rows, it has none, or every request fails.
FamilyResults == {"rows", "empty", "failed"}

\* The behaviours of the remote API for the row families of one document.
ApiPatterns(doc_type) ==
    LET eps == EndpointsOf(doc_type)
        n == Len(eps)
    IN  {[i \in 1 .. n |-> res] : res \in FamilyResults}
        \cup {[i \in 1 .. n |-> IF i = 1 THEN "rows" ELSE "empty"],
              [i \in 1 .. n |-> IF i = n THEN "rows" ELSE "failed"],
              [i \in 1 .. n |-> IF i = 2 THEN "empty" ELSE "failed"]}

\* What a getter gives for a row family: the rows, or [] when there are none
\* and when the requests failed.
FamilyRows(doc, label, res) ==
    IF res = "rows"
    THEN <<[code |-> 1, of |-> label, doc |-> doc.document_id]>>
    ELSE <<>>

\* by_ep as harvest_lcd_endpoints and harvest_article_endpoints return it: the
\* rows of each row family of the document, in the order of the families.
ByEp(doc, pattern) ==
    [i \in 1 .. Len(EndpointsOf(doc.document_type)) |->
        [ep |-> EndpointsOf(doc.document_type)[i],
         rows |-> FamilyRows(doc, EndpointsOf(doc.document_type)[i], pattern[i])]]

\* Mutant of _summarize: the families are counted, not their rows.
SummarizeFamilies(by_ep) == Len(by_ep)

\* _summarize, harvest_shard.py lines 54-57: the total number of rows.
RECURSIVE Summarize(_)
Summarize(by_ep) ==
    IF by_ep = <<>> THEN 0
    ELSE Len(Head(by_ep).rows) + Summarize(Tail(by_ep))

\* _write_rows, harvest_shard.py lines 60-73, for the rows of one family.
WriteRows(doc, ep, rows) ==
    [i \in 1 .. Len(rows) |->
        [document_type |-> doc.document_type, document_id |-> doc.document_id,
         endpoint |-> ep, row |-> rows[i]]]

\* harvest_shard.py lines 148-152 and 173-177: the rows of every family that
\* has rows, in the order of by_ep.
RECURSIVE WriteAll(_, _)
WriteAll(doc, by_ep) ==
    IF by_ep = <<>> THEN <<>>
    ELSE (IF Head(by_ep).rows = <<>> THEN <<>>
          ELSE WriteRows(doc, Head(by_ep).ep, Head(by_ep).rows))
         \o WriteAll(doc, Tail(by_ep))

\* Mutant of the test on total: the zero-yield row is written for every
\* document.
IsZeroYieldAlways(total) == TRUE

\* harvest_shard.py lines 147 and 153 (if total: ... else: ...).
IsZeroYield(total) == total = 0

\* The reason of a zero-yield row: harvest_shard.py lines 160 and 185,
\* run_once.py lines 334 and 352.
ZeroYieldReason(s, doc_type) ==
    IF s = "harvest_shard" THEN "no rows"
    ELSE IF doc_type = "Article" THEN "No codes returned from article endpoints"
    ELSE "No codes returned from lcd endpoints"

\* harvest_shard.py lines 154-162 and 179-187; run_once.py lines 328-336 and
\* 346-354.
ZeroYieldRow(s, doc) ==
    [document_type |-> doc.document_type, document_id |-> doc.document_id,
     reason |-> ZeroYieldReason(s, doc.document_type)]

\* Mutant of harvest_article_codes and harvest_lcd_codes: the loop over the
\* families stops at the first one that gave data.
RECURSIVE HarvestCodesFirst(_, _)
HarvestCodesFirst(doc, by_ep) ==
    IF by_ep = <<>> THEN [rows_out |-> <<>>, had_any |-> FALSE]
    ELSE IF Head(by_ep).rows # <<>>
         THEN [rows_out |-> WriteRows(doc, Head(by_ep).ep, Head(by_ep).rows),
               had_any |-> TRUE]
         ELSE HarvestCodesFirst(doc, Tail(by_ep))

\* harvest_article_codes and harvest_lcd_codes, run_once.py lines 172-230:
\* (rows_out, had_any) from what each getter gave.
RECURSIVE HarvestCodes(_, _)
HarvestCodes(doc, by_ep) ==
    IF by_ep = <<>> THEN [rows_out |-> <<>>, had_any |-> FALSE]
    ELSE LET data == Head(by_ep).rows
             rest == HarvestCodes(doc, Tail(by_ep))
         IN  [rows_out |-> WriteRows(doc, Head(by_ep).ep, data) \o rest.rows_out,
              had_any |-> (data # <<>>) \/ rest.had_any]

\* What one turn of a document loop adds to the two outputs: in
\* harvest_shard.py (lines 145-162, 170-187) the rows of the families when
\* total is not 0 and the zero-yield row otherwise; in run_once.py (lines
\* 324-336, 342-354) rows_out, and the zero-yield row when not had_any.
DocOutput(s, doc, by_ep) ==
    LET total == Summarize(by_ep)
        h == HarvestCodes(doc, by_ep)
    IN  IF s = "harvest_shard"
        THEN IF IsZeroYield(total)
             THEN [code |-> <<>>, nocode |-> <<ZeroYieldRow(s, doc)>>]
             ELSE [code |-> WriteAll(doc, by_ep), nocode |-> <<>>]
        ELSE [code |-> h.rows_out,
              nocode |-> IF ~h.had_any THEN <<ZeroYieldRow(s, doc)>> ELSE <<>>]

\* Mutant of the try statement of harvest_shard.py: no finally clause, the
\* files are left as the exception found them.
FilesLeftAsFound(f) == f

\* harvest_shard.py lines 188-192: whichever way the try block ends, the
\* finally clause flushes and closes the two files.
Finally(f) == "closed"

\* The documents a report lists: document_id 1 .. n of one type.
Docs(doc_type, n) == [i \in 1 .. n |-> [document_type |-> doc_type, document_id |-> i]]

\* The environments a run is started in: SHARD_INDEX, SHARD_TOTAL,
\* COVERAGE_MAX_DOCS and COVERAGE_TIMEOUT.
RunEnv(ix, tot, md, to) == [index |-> ix, total |-> tot, max_docs |-> md, timeout |-> to]

RunEnvs ==
    {RunEnv(EnvUnset, EnvUnset, EnvUnset, EnvUnset),
     RunEnv(EnvOfInt(1), EnvOfInt(2), EnvUnset, EnvOfInt(30)),
     RunEnv(EnvOfInt(2), EnvOfInt(2), EnvUnset, EnvUnset),
     RunEnv(EnvOfInt(-1), EnvUnset, EnvUnset, EnvUnset),
     RunEnv(EnvUnset, EnvUnset, EnvOfInt(1), EnvUnset),
     RunEnv(EnvUnset, EnvUnset, EnvUnset, EnvJunk)}

\* float(_env("COVERAGE_TIMEOUT", "30")), harvest_shard.py line 94, raises
\* ValueError on a value that is no number.
TimeoutRaises(v) == Env(v, EnvOfInt(30)).kind = "junk"

\* An HTTP request the process issued.
Request(req, doc_type, doc_id, ep) ==
    [req |-> req, document_type |-> doc_type, document_id |-> doc_id, ep |-> ep]

\* GET /metadata/license-agreement, coverage_api.py lines 101-115.
LicenseRequest == Request("license-agreement", "-", 0, "-")

ReportRequest(slug) == Request(slug, "-", 0, "-")

\* The requests for the row families of one document.
HarvestRequests(doc) ==
    [i \in 1 .. Len(EndpointsOf(doc.document_type)) |->
        Request("data", doc.document_type, doc.document_id,
                EndpointsOf(doc.document_type)[i])]

\* run_once.py lines 306-312: the COVERAGE_MAX_DOCS cut, articles first.
RunOnceCut(lcd_rows, art_rows, v) ==
    LET max_docs == EnvInt(v, EnvNone)
    IN  IF max_docs.kind = "int" /\ max_docs.val >= 0
        THEN LET half == max_docs.val \div 2
                 a == IF half > 0 THEN PyPrefix(art_rows, half) ELSE <<>>
             IN  [lcds |-> PyPrefix(lcd_rows, max_docs.val - Len(a)), arts |-> a]
        ELSE [lcds |-> lcd_rows, arts |-> art_rows]

\* The order the documents are processed in: harvest_shard.py takes the LCDs
\* first (lines 140, 165), run_once.py the Articles (lines 321, 339).
Worklist(s, l, a) == IF s = "harvest_shard" THEN l \o a ELSE a \o l

\* What a report request of run_once.py may meet (lines 40-56, 89-97): the
\* list, a body without data, or a request that raises (timeout, connection).
ReportOutcomes == {"list", "nodata", "raises"}

RunInit ==
    /\ orchestrator = "none"
    /\ pcH = "idle"
    /\ r_env = RunEnv(EnvUnset, EnvUnset, EnvUnset, EnvUnset)
    /\ r_report \in {[lcds |-> Docs("LCD", n), arts |-> Docs("Article", m)] :
                        n \in 0 .. MaxRunLcds, m \in 0 .. MaxRunArts}
    /\ r_http = <<>>
    /\ r_index = 0
    /\ r_total = 1
    /\ r_lcds = <<>>
    /\ r_arts = <<>>
    /\ harvested = <<>>
    /\ code_rows = <<>>
    /\ nocode_rows = <<>>
    /\ emitted = FALSE
    /\ r_files = "none"

\* A process starts and imports scripts.coverage_api, whose module body ends
\* with a call of ensure_license_acceptance (coverage_api.py lines 278-282).
RunStart ==
    /\ pcH = "idle"
    /\ \E s \in Orchestrators, e \in RunEnvs :
          /\ orchestrator' = s
          /\ r_env' = e
    /\ r_http' = <<LicenseRequest>>
    /\ r_index' = 0
    /\ r_total' = 1
    /\ r_lcds' = <<>>
    /\ r_arts' = <<>>
    /\ harvested' = <<>>
    /\ code_rows' = <<>>
    /\ nocode_rows' = <<>>
    /\ emitted' = FALSE
    /\ r_files' = "none"
    /\ pcH' = "main"
    /\ UNCHANGED r_report
    /\ UNCHANGED notRun

\* harvest_shard.py main, lines 93-103: the timeout and the shard
\* configuration; an invalid one ends the process with sys.exit(2).
HsConfig ==
    /\ pcH = "main"
    /\ orchestrator = "harvest_shard"
    /\ IF TimeoutRaises(r_env.timeout)
       THEN /\ pcH' = "crashed"
            /\ UNCHANGED <<r_index, r_total>>
       ELSE /\ r_index' = ShardIndexOf(r_env.index)
            /\ r_total' = ShardTotalOf(r_env.total)
            /\ pcH' = IF InvalidShardConfig(r_index', r_total')
                      THEN "exit2" ELSE "configured"
    /\ UNCHANGED <<orchestrator, r_env, r_report, r_http, r_lcds, r_arts, harvested,
                   code_rows, nocode_rows, emitted, r_files>>
    /\ UNCHANGED notRun

\* harvest_shard.py main, lines 110-134: the license preflight, the reports
\* (which give no documents when their requests fail), the cut, the slice of
\* this shard, and the two output files opened.
HsDiscover ==
    /\ pcH = "configured"
    /\ \E ok \in BOOLEAN :
          LET l == IF ok THEN r_report.lcds ELSE <<>>
              a == IF ok THEN r_report.arts ELSE <<>>
          IN  /\ r_lcds' = SliceForShard(ApplyMaxDocs(l, r_env.max_docs), r_index, r_total)
              /\ r_arts' = SliceForShard(ApplyMaxDocs(a, r_env.max_docs), r_index, r_total)
    /\ r_http' = r_http \o <<LicenseRequest, ReportRequest("local-coverage-final-lcds"),
                            ReportRequest("local-coverage-articles")>>
    /\ emitted' = TRUE
    /\ r_files' = "open"
    /\ pcH' = "loop"
    /\ UNCHANGED <<orchestrator, r_env, r_report, r_index, r_total, harvested,
                   code_rows, nocode_rows>>
    /\ UNCHANGED notRun

\* run_once.py main, lines 274-318: the license preflight and the two report
\* requests, made with requests.get outside any try, then the cut.
RoDiscover ==
    /\ pcH = "main"
    /\ orchestrator = "run_once"
    /\ \E o1 \in ReportOutcomes, o2 \in ReportOutcomes :
          LET l == IF o1 = "list" THEN r_report.lcds ELSE <<>>
              a == IF o2 = "list" THEN r_report.arts ELSE <<>>
              cut == RunOnceCut(l, a, r_env.max_docs)
          IN  IF o1 = "raises"
              THEN /\ r_http' = r_http \o <<LicenseRequest,
                                           ReportRequest("local-coverage-final-lcds")>>
                   /\ pcH' = "crashed"
                   /\ UNCHANGED <<r_lcds, r_arts>>
              ELSE IF o2 = "raises"
              THEN /\ r_http' = r_http \o <<LicenseRequest,
                                           ReportRequest("local-coverage-final-lcds"),
                                           ReportRequest("local-coverage-articles")>>
                   /\ pcH' = "crashed"
                   /\ UNCHANGED <<r_lcds, r_arts>>
              ELSE /\ r_http' = r_http \o <<LicenseRequest,
                                           ReportRequest("local-coverage-final-lcds"),
                                           ReportRequest("local-coverage-articles")>>
                   /\ r_lcds' = cut.lcds
                   /\ r_arts' = cut.arts
                   /\ pcH' = "loop"
    /\ UNCHANGED <<orchestrator, r_env, r_report, r_index, r_total, harvested,
                   code_rows, nocode_rows, emitted, r_files>>
    /\ UNCHANGED notRun

\* One turn of the document loops: the document is harvested and its rows, or
\* its zero-yield row, are written (harvest_shard.py lines 140-187) or kept
\* for the end of the run (run_once.py lines 321-354).
HarvestDoc ==
    /\ pcH = "loop"
    /\ Len(harvested) < Len(Worklist(orchestrator, r_lcds, r_arts))
    /\ LET doc == Worklist(orchestrator, r_lcds, r_arts)[Len(harvested) + 1]
       IN  \E pattern \in ApiPatterns(doc.document_type) :
              LET out == DocOutput(orchestrator, doc, ByEp(doc, pattern))
              IN  /\ harvested' = Append(harvested, [doc |-> doc, pattern |-> pattern])
                  /\ r_http' = r_http \o HarvestRequests(doc)
                  /\ code_rows' = code_rows \o out.code
                  /\ nocode_rows' = nocode_rows \o out.nocode
    /\ UNCHANGED <<orchestrator, pcH, r_env, r_report, r_index, r_total, r_lcds, r_arts,
                   emitted, r_files>>
    /\ UNCHANGED notRun

\* A turn of a document loop ends with an exception, at any point of the
\* turn: after some of the requests of the document, or after some of its
\* code rows have been written. Neither main has an except around the loops.
\* In harvest_shard.py the rows written stay written and the finally clause
\* ends the try block (lines 138, 188-192); in run_once.py the rows gathered
\* so far are in memory only and the outputs are never written.
DocRaises ==
    /\ pcH = "loop"
    /\ Len(harvested) < Len(Worklist(orchestrator, r_lcds, r_arts))
    /\ LET doc == Worklist(orchestrator, r_lcds, r_arts)[Len(harvested) + 1]
           reqs == HarvestRequests(doc)
       IN  \E pattern \in ApiPatterns(doc.document_type), m \in 0 .. Len(reqs) :
              LET out == DocOutput(orchestrator, doc, ByEp(doc, pattern))
              IN  \E n \in 0 .. Len(out.code) :
                     /\ (m < Len(reqs)) => (n = 0)
                     /\ r_http' = r_http \o SubSeq(reqs, 1, m)
                     /\ code_rows' = IF orchestrator = "harvest_shard"
                                     THEN code_rows \o SubSeq(out.code, 1, n)
                                     ELSE code_rows
    /\ r_files' = IF orchestrator = "harvest_shard" THEN Finally(r_files) ELSE r_files
    /\ pcH' = "crashed"
    /\ UNCHANGED <<orchestrator, r_env, r_report, r_index, r_total, r_lcds, r_arts,
                   harvested, nocode_rows, emitted>>
    /\ UNCHANGED notRun

\* The loops are over: harvest_shard.py closes its two files (lines 188-195),
\* run_once.py writes them (lines 357-364).
RunFinish ==
    /\ pcH = "loop"
    /\ Len(harvested) = Len(Worklist(orchestrator, r_lcds, r_arts))
    /\ emitted' = TRUE
    /\ r_files' = IF orchestrator = "harvest_shard" THEN Finally(r_files) ELSE "closed"
    /\ pcH' = "done"
    /\ UNCHANGED <<orchestrator, r_env, r_report, r_http, r_index, r_total, r_lcds, r_arts,
                   harvested, code_rows, nocode_rows>>
    /\ UNCHANGED notRun

\* The process has ended.
RunExit ==
    /\ pcH \in {"done", "exit2", "crashed"}
    /\ pcH' = "idle"
    /\ UNCHANGED <<orchestrator, r_env, r_report, r_http, r_index, r_total, r_lcds, r_arts,
                   harvested, code_rows, nocode_rows, emitted, r_files>>
    /\ UNCHANGED notRun

NextRun ==
    \/ RunStart
    \/ HsConfig
    \/ HsDiscover
    \/ RoDiscover
    \/ HarvestDoc
    \/ DocRaises
    \/ RunFinish
    \/ RunExit

-----------------------------------------------------------------------------
(* The specifications: one script runs, the state of the others is idle. *)

IdleShard ==
    /\ report = [lcds |-> <<>>, arts |-> <<>>]
    /\ envTotal = EnvUnset
    /\ envMaxDocs = EnvUnset
    /\ envIndex = EnvUnset
    /\ hashseed = 0
    /\ pcS = "idle"
    /\ shard_index = 0
    /\ shard_total = 1
    /\ lcds = <<>>
    /\ arts = <<>>
    /\ lcds_shard = <<>>
    /\ arts_shard = <<>>
    /\ outs = [i \in 0 .. MaxShards - 1 |-> NoSlice]

IdleDiff ==
    /\ argv = [n |-> 1, prev |-> FALSE]
    /\ current_csv = [kind |-> "missing", rows |-> <<>>]
    /\ prev_csv = NoFile
    /\ norm_file = NotWritten
    /\ changes_file = NotWritten
    /\ pcM = "idle"
    /\ rc = NoRc

IdleCodeDiff ==
    /\ cc_prev = <<>>
    /\ cc_curr = <<>>
    /\ cc_changes = <<>>
    /\ pcC = "idle"

IdleRun ==
    /\ RunInit
    /\ r_report = [lcds |-> <<>>, arts |-> <<>>]

InitShard == ShardInit /\ IdleDiff /\ IdleCodeDiff /\ GetInit /\ ResolverInit /\ IdleRun
SpecShard == InitShard /\ [][NextShard]_vars

InitDiff == DiffInit /\ IdleShard /\ IdleCodeDiff /\ GetInit /\ ResolverInit /\ IdleRun
SpecDiff == InitDiff /\ [][NextDiff]_vars

InitCodeDiff == CodeDiffInit /\ IdleShard /\ IdleDiff /\ GetInit /\ ResolverInit /\ IdleRun
SpecCodeDiff == InitCodeDiff /\ [][NextCodeDiff]_vars

InitGet == GetInit /\ IdleShard /\ IdleDiff /\ IdleCodeDiff /\ ResolverInit /\ IdleRun
SpecGet == InitGet /\ [][NextGet]_vars

InitResolver == ResolverInit /\ IdleShard /\ IdleDiff /\ IdleCodeDiff /\ GetInit /\ IdleRun
SpecResolver == InitResolver /\ [][NextResolver]_vars

InitRun == RunInit /\ IdleShard /\ IdleDiff /\ IdleCodeDiff /\ GetInit /\ ResolverInit
SpecRun == InitRun /\ [][NextRun]_vars

-----------------------------------------------------------------------------
(* Claims about the work partitioner, checked under SpecShard. *)

\* A sliced stub without the _pos debug key.
StripPos(r) == [k \in (DOMAIN r) \ {"_pos"} |-> r[k]]

\* The slices parts[0..M-1] hold every position of L exactly once, each with
\* the stub of that position, and hold nothing else.
Covers(L, parts, M) ==
    LET places == {<<i, j>> \in (0 .. M - 1) \X (1 .. Len(L)) : j <= Len(parts[i])}
        At(p) == {pl \in places : parts[pl[1]][pl[2]]["_pos"] = p}
    IN  /\ \A p \in 0 .. Len(L) - 1 :
              /\ Cardinality(At(p)) = 1
              /\ \A pl \in At(p) : StripPos(parts[pl[1]][pl[2]]) = StripPos(L[p + 1])
        /\ \A i \in 0 .. M - 1 : Len(parts[i]) <= Len(L)
        /\ Cardinality(places) = Len(L)

\* Every shard 0..M-1 of a fleet of M has run on the list L of shard 0.
FleetRan(M) ==
    \A i \in 0 .. M - 1 :
        /\ outs[i].ran
        /\ outs[i].total = M
        /\ outs[i].lcds = outs[0].lcds
        /\ outs[i].arts = outs[0].arts

\* C1: partition coverage. Once the shards 0..M-1 of a fleet of M >= 1 have
\* each sliced the same document list, the slices together hold every position
\* of the list exactly once (no document lost, none in two shards), the _pos
\* key apart.
C1_PartitionCoverage ==
    \A M \in 1 .. MaxShards :
        FleetRan(M) =>
            /\ Covers(outs[0].lcds, [i \in 0 .. M - 1 |-> outs[i].lcds_shard], M)
            /\ Covers(outs[0].arts, [i \in 0 .. M - 1 |-> outs[i].arts_shard], M)

C1_Witness ==
    /\ FleetRan(2)
    /\ Len(outs[0].lcds) = 3
    /\ Len(outs[0].lcds_shard) = 2
    /\ Len(outs[1].lcds_shard) = 1

CountAtMostOne(v) ==
    \/ v.kind \in {"unset", "blank"}
    \/ v.kind = "int" /\ v.val <= 1

\* C3: identity partition. With a configured shard count of at most 1 (0 and
\* negative counts and an unset variable included) the only shard that passes
\* the configuration check is shard 0, and it is assigned every document of
\* each list, in the original order.
C3_IdentityPartition ==
    (CountAtMostOne(envTotal) /\ pcS \in {"configured", "fetched", "sliced"}) =>
        /\ shard_index = 0
        /\ pcS = "sliced" =>
              /\ Len(lcds_shard) = Len(lcds)
              /\ \A j \in 1 .. Len(lcds) : StripPos(lcds_shard[j]) = StripPos(lcds[j])
              /\ Len(arts_shard) = Len(arts)
              /\ \A j \in 1 .. Len(arts) : StripPos(arts_shard[j]) = StripPos(arts[j])

C3_Witness ==
    /\ pcS = "sliced"
    /\ envTotal = EnvOfInt(-2)
    /\ Len(lcds) >= 2
    /\ Len(lcds_shard) = Len(lcds)

-----------------------------------------------------------------------------
(* Claims about the change detection, checked under SpecDiff. *)

\* main has returned 0 after diffing the snapshot it wrote against a baseline.
Diffed == pcM = "done" /\ rc = 0 /\ argv.prev /\ prev_csv.kind = "csv"

\* The key and the flags of a snapshot's rows, and the key of a change record.
SnapKey(r) == <<r.doc_type, r.doc_id, r.code_system, r.code>>
SnapKeys(rows) == {SnapKey(rows[i]) : i \in 1 .. Len(rows)}
SnapFlags(rows, k) ==
    {rows[i].coverage_flag : i \in {j \in 1 .. Len(rows) : SnapKey(rows[j]) = k}}
RecordKey(c) == <<c.doc_type, c.doc_id, c.code_system, c.code>>

\* The records of ch are the classification of prev against curr.
Classifies(ch, prev, curr) ==
    /\ \A i \in 1 .. Len(ch) : RecordKey(ch[i]) \in SnapKeys(prev) \cup SnapKeys(curr)
    /\ \A k \in SnapKeys(prev) \cup SnapKeys(curr) :
          LET recs == {i \in 1 .. Len(ch) : RecordKey(ch[i]) = k}
              inPrev == k \in SnapKeys(prev)
              inCurr == k \in SnapKeys(curr)
          IN  /\ Cardinality(recs) <= 1
              /\ (~inPrev) =>
                    /\ recs # {}
                    /\ \A i \in recs :
                          /\ ch[i].change_type = Added
                          /\ ch[i].prev_flag = Empty
                          /\ ch[i].curr_flag \in SnapFlags(curr, k)
              /\ (~inCurr) =>
                    /\ recs # {}
                    /\ \A i \in recs :
                          /\ ch[i].change_type = Removed
                          /\ ch[i].prev_flag \in SnapFlags(prev, k)
                          /\ ch[i].curr_flag = Empty
              /\ (inPrev /\ inCurr) =>
                    /\ \A i \in recs :
                          /\ ch[i].change_type = FlagChanged
                          /\ ch[i].prev_flag \in SnapFlags(prev, k)
                          /\ ch[i].curr_flag \in SnapFlags(curr, k)
                          /\ ch[i].prev_flag # ch[i].curr_flag
                    /\ (Cardinality(SnapFlags(prev, k)) = 1 /\ Cardinality(SnapFlags(curr, k)) = 1)
                          => (recs # {} <=> SnapFlags(prev, k) # SnapFlags(curr, k))

\* C4: diff classification. The change log of a run holds, for each key of
\* the previous or the current snapshot: one Added record (prev_flag empty,
\* curr_flag the current flag) iff the key is in the current snapshot only;
\* one Removed record (prev_flag the previous flag, curr_flag empty) iff it is
\* in the previous snapshot only; one FlagChanged record with both flags iff
\* it is in both with differing flags; no record iff it is in both with the
\* same flag.
C4_DiffClassification ==
    Diffed => Classifies(changes_file.rows, prev_csv.rows, norm_file.rows)

C4_Witness ==
    /\ Diffed
    /\ \E i, j, l \in 1 .. Len(changes_file.rows) :
          /\ changes_file.rows[i].change_type = Added
          /\ changes_file.rows[j].change_type = Removed
          /\ changes_file.rows[l].change_type = FlagChanged

\* The records of ch are in strictly ascending order of Key.
Ascending(ch, Key(_)) ==
    \A i, j \in 1 .. Len(ch) : i < j => TupleLess(Key(ch[i]), Key(ch[j]))

CodeRecordKey(c) == <<StrOf(c.article_id), StrOf(c.code_system), StrOf(c.code)>>

\* C5, as claimed, of compute_code_changes: the list returned is sorted
\* ascending by key, whatever the order of the input rows.
C5_CodeChangesSorted ==
    pcC = "returned" => Ascending(cc_changes, CodeRecordKey)

\* The same of compute_changes, the diff main runs: its change log is sorted
\* ascending by (doc_type, doc_id, code_system, code).
ComputeChangesSorted ==
    pcM = "done" /\ rc = 0 => Ascending(changes_file.rows, RecordKey)

\* C6, as claimed: against an empty baseline the change log holds exactly one
\* Added record per row of the current snapshot and no other record.
C6_OneAddedPerRow ==
    (Diffed /\ prev_csv.rows = <<>>) =>
        /\ Len(changes_file.rows) = Len(norm_file.rows)
        /\ \A i \in 1 .. Len(changes_file.rows) : changes_file.rows[i].change_type = Added

\* The run had no previous snapshot: no argument, no file, or an empty file.
NoBaseline == (~argv.prev) \/ prev_csv.kind = "missing" \/ prev_csv.kind = "empty"

\* C7: first run. Without a previous snapshot main does not fail for that: it
\* writes the normalized snapshot and a change log that has the change header
\* and no record, and returns 0.
C7_FirstRun ==
    /\ pcM = "raised" => current_csv.kind = "missing"
    /\ (pcM = "done" /\ argv.n >= 2 /\ NoBaseline) =>
          /\ rc = 0
          /\ norm_file.kind = "csv"
          /\ norm_file.header = NORM_HEADER
          /\ changes_file.kind = "csv"
          /\ changes_file.header = CHG_HEADER
          /\ changes_file.rows = <<>>

C7_Witness ==
    /\ pcM = "done"
    /\ argv.prev
    /\ prev_csv = ZeroBytes
    /\ Len(norm_file.rows) = 2
    /\ changes_file.rows = <<>>

-----------------------------------------------------------------------------
(* Claims about the transport, checked under SpecGet. *)

\* The statuses the claim calls transient: 429 and 5xx.
Transient(st) == st = 429 \/ (st >= 500 /\ st <= 599)
AllTransient == \A i \in 1 .. Len(statuses) : Transient(statuses[i])

\* C10: bounded retry. A call of _get makes at most 4 requests; one that has
\* received only 429 and 5xx answers has returned no value, and after the
\* fourth such answer it has ended by raising the error to its caller.
C10_BoundedRetry ==
    /\ Len(statuses) <= 4
    /\ attempt_number <= 4
    /\ (statuses # <<>> /\ AllTransient) =>
          /\ pcG # "returned"
          /\ got.kind = "HTTPError"
          /\ Len(statuses) = 4 => pcG \in {"raised", "idle"}
          /\ pcG \in {"raised", "idle"} => Len(statuses) = 4

C10_Witness ==
    /\ pcG = "raised"
    /\ statuses = <<429, 503, 429, 500>>

-----------------------------------------------------------------------------
(* Claims about the resolvers, checked under SpecResolver. *)

Phases == {"article", "lcd"}

\* The candidate shapes of an endpoint: its id keys that have a value.
Candidates(ph) == SelectSeq(TryKeys(ph), LAMBDA k : Truthy(ids[k]))

\* The transport calls made against an endpoint, in order.
CallsOf(ph) == SelectSeq(calls, LAMBDA c : c.phase = ph)

\* The resolver is through with an endpoint.
Through(ph) == phase_ret[ph].kind # "none"

\* C8: resolver short-circuit. The transport calls against one endpoint are
\* its candidate shapes in order; a call that brings rows is the last one
\* against the endpoint, so that when shape k (0-based) is the first with a
\* non-empty data array exactly k+1 calls are made, and the resolver returns
\* exactly the rows of that shape's response.
C8_ShortCircuit ==
    \A ph \in Phases :
        LET log == CallsOf(ph)
            cands == Candidates(ph)
        IN  /\ Len(log) <= Len(cands)
            /\ \A j \in 1 .. Len(log) :
                  /\ log[j].key = cands[j]
                  /\ log[j].path = PathOf(getter, ph)
                  /\ log[j].rows # <<>> =>
                        /\ j = Len(log)
                        /\ phase_ret[ph].kind = "rows"
                        /\ phase_ret[ph].rows = RowsOf(PathOf(getter, ph), cands[j], ids[cands[j]])

C8_Witness ==
    /\ pcR = "done"
    /\ Len(Candidates("article")) = 3
    /\ Len(CallsOf("article")) = 2
    /\ CallsOf("article")[1].kind = "data"
    /\ CallsOf("article")[1].rows = <<>>
    /\ CallsOf("article")[2].rows # <<>>
    /\ ret.rows = CallsOf("article")[2].rows

\* C9: shape rejection is local. The resolver never raises; once it is through
\* with an endpoint, a call that failed with an HTTP error on a shape that is
\* not the last candidate was followed by a call for the next shape, and when
\* no call brought rows (each failed or came back empty) every candidate was
\* tried and the endpoint gave the empty list; a getter none of whose calls
\* brought rows returns the empty list.
C9_ShapeRejectionLocal ==
    /\ pcR # "raised"
    /\ ret.kind # "raised"
    /\ \A ph \in Phases :
          LET log == CallsOf(ph)
              cands == Candidates(ph)
          IN  Through(ph) =>
                /\ phase_ret[ph].kind = "rows"
                /\ \A j \in 1 .. Len(log) :
                      (log[j].kind = "HTTPError" /\ j < Len(cands)) =>
                          /\ Len(log) > j
                          /\ log[j + 1].key = cands[j + 1]
                /\ (\A j \in 1 .. Len(log) : log[j].rows = <<>>) =>
                      /\ Len(log) = Len(cands)
                      /\ phase_ret[ph].rows = <<>>
    /\ (pcR = "done" /\ \A i \in 1 .. Len(calls) : calls[i].rows = <<>>) =>
          ret = [kind |-> "rows", rows |-> <<>>]

C9_Witness ==
    /\ pcR = "done"
    /\ CallsOf("article") # <<>>
    /\ \A i \in 1 .. Len(CallsOf("article")) : CallsOf("article")[i].kind = "HTTPError"
    /\ phase_ret["article"] = [kind |-> "rows", rows |-> <<>>]
    /\ Len(CallsOf("lcd")) = 2
    /\ CallsOf("lcd")[1].kind = "HTTPError"
    /\ CallsOf("lcd")[2].rows # <<>>
    /\ ret.rows = CallsOf("lcd")[2].rows

\* The statuses of an authentication failure.
AuthFailure(st) == st = 401 \/ st = 403

\* A 4xx status other than 401, 403 and 429.
OtherClientError(st) == st >= 400 /\ st <= 499 /\ ~AuthFailure(st) /\ st # 429

\* C11: authentication retry. A call of _get whose first answer is 401 or 403
\* refreshes the token exactly once and repeats the request exactly once; when
\* the second answer is 401 or 403 too the call has ended by raising, so that
\* the call makes at most 2 requests.
C11_AuthRetry ==
    (statuses # <<>> /\ \A i \in 1 .. Len(statuses) : AuthFailure(statuses[i])) =>
        /\ Len(statuses) <= 2
        /\ Len(statuses) = 2 => (Refreshes = 1 /\ pcG \in {"raised", "idle"})

\* C12: non-retryable client errors. An answer of 4xx other than 401, 403 and
\* 429 is the last request of the call: no request follows it, and the call
\* hands the outcome to its caller after that one request.
C12_NoRetryOnClientError ==
    \A i \in 1 .. Len(statuses) :
        OtherClientError(statuses[i]) =>
            /\ i = 1
            /\ Len(statuses) = 1
            /\ pcG \in {"raised", "returned", "idle"}

-----------------------------------------------------------------------------
(* More claims about compute_changes.py, checked under SpecDiff. *)

\* C16: snapshot key uniqueness. In the normalized snapshot a run writes, no
\* two rows have the same (doc_type, doc_id, code_system, code), whatever the
\* rows of the harvested input are.
C16_SnapshotKeyUnique ==
    norm_file.kind = "csv" =>
        \A i, j \in 1 .. Len(norm_file.rows) :
            SnapKey(norm_file.rows[i]) = SnapKey(norm_file.rows[j]) => i = j

-----------------------------------------------------------------------------
(* More claims about the resolvers, checked under SpecResolver. *)

\* The place of an id key in the best-first order: numeric ids, then display.
KeyRank(key) ==
    IF key = "article_id" THEN 1 ELSE IF key = "document_id" THEN 2 ELSE 3

IsArticlePath(path) == path \in {"/data/article/code-table", "/data/article/icd10-covered"}

\* C19: resolution order. Of the requests made for one document and one row
\* family, those on the Article endpoint come first, by article_id, then
\* document_id, then document_display_id; those on the final-lcd endpoint, by
\* document_id then document_display_id, are made only after every shape of
\* the Article endpoint that has a value was tried and gave no rows, and none
\* is made once the Article endpoint gave rows.
C19_ResolutionOrder ==
    /\ \A i, j \in 1 .. Len(calls) :
          i < j =>
             /\ IsArticlePath(calls[j].path) => IsArticlePath(calls[i].path)
             /\ (IsArticlePath(calls[i].path) <=> IsArticlePath(calls[j].path)) =>
                   KeyRank(calls[i].key) < KeyRank(calls[j].key)
    /\ \A i \in 1 .. Len(calls) :
          /\ IsArticlePath(calls[i].path) =>
                calls[i].key \in {"article_id", "document_id", "document_display_id"}
          /\ ~IsArticlePath(calls[i].path) =>
                /\ calls[i].key \in {"document_id", "document_display_id"}
                /\ \A k \in {"article_id", "document_id", "document_display_id"} :
                      Truthy(ids[k]) =>
                         \E j \in 1 .. i - 1 :
                            /\ IsArticlePath(calls[j].path)
                            /\ calls[j].key = k
                            /\ calls[j].rows = <<>>

C19_Witness ==
    /\ pcR = "done"
    /\ Len(calls) = 5
    /\ calls[1].kind = "data"
    /\ calls[3].kind = "HTTPError"
    /\ calls[4].path = "/data/final-lcd/icd10-covered"
    /\ calls[4].kind = "data"
    /\ calls[5].rows # <<>>

\* C15: family applicability. No request for a document whose display id
\* names an LCD goes to an Article endpoint, and none for a document whose
\* display id names an Article goes to a final-lcd endpoint.
C15_FamilyApplicability ==
    \A i \in 1 .. Len(calls) :
        /\ IsLcd(ids) => ~IsArticlePath(calls[i].path)
        /\ IsArticle(ids) => IsArticlePath(calls[i].path)

-----------------------------------------------------------------------------
(* Claims about the orchestrators, checked under SpecRun. *)

\* A row of an output is about a document.
About(row, doc) ==
    row.document_type = doc.document_type /\ row.document_id = doc.document_id

CodeRowsOf(doc) == {j \in 1 .. Len(code_rows) : About(code_rows[j], doc)}
ZeroRowsOf(doc) == {j \in 1 .. Len(nocode_rows) : About(nocode_rows[j], doc)}

\* What the remote API did with the row families of a harvested document.
NoFamilyHasRows(h) == \A i \in DOMAIN h.pattern : h.pattern[i] # "rows"
EveryFamilyEmpty(h) == \A i \in DOMAIN h.pattern : h.pattern[i] = "empty"
EveryFamilyFailed(h) == \A i \in DOMAIN h.pattern : h.pattern[i] = "failed"

\* C13: zero-yield accounting. A harvested document for which every row
\* family returned an empty row list has exactly one zero-yield row and no
\* code row in the outputs of the run.
C13_ZeroYieldAccounting ==
    \A i \in 1 .. Len(harvested) :
        NoFamilyHasRows(harvested[i]) =>
            /\ Cardinality(ZeroRowsOf(harvested[i].doc)) = 1
            /\ CodeRowsOf(harvested[i].doc) = {}

C13_Witness ==
    /\ pcH = "done"
    /\ orchestrator = "harvest_shard"
    /\ Len(harvested) = 2
    /\ EveryFamilyEmpty(harvested[1])
    /\ ~NoFamilyHasRows(harvested[2])
    /\ Len(nocode_rows) = 1
    /\ code_rows # <<>>

\* C14: per-document failure isolation. A document whose harvest failed has
\* one zero-yield row, with a reason that tells it from a document that has
\* no rows, and the run goes on: it ends having harvested every document
\* assigned to it.
C14_FailureIsolation ==
    /\ \A i \in 1 .. Len(harvested) :
          EveryFamilyFailed(harvested[i]) =>
              /\ Cardinality(ZeroRowsOf(harvested[i].doc)) = 1
              /\ \A j \in 1 .. Len(harvested) :
                    EveryFamilyEmpty(harvested[j]) =>
                        \A a \in ZeroRowsOf(harvested[i].doc), b \in ZeroRowsOf(harvested[j].doc) :
                            nocode_rows[a].reason # nocode_rows[b].reason
    /\ pcH = "done" => Len(harvested) = Len(r_lcds) + Len(r_arts)

\* C17: configuration errors are fatal before fetching. A process that ended
\* on an invalid shard configuration has issued no HTTP request.
C17_ConfigErrorBeforeFetch ==
    /\ pcH = "exit2" => r_http = <<>>
    /\ (pcH \notin {"idle", "main"} /\ orchestrator = "harvest_shard"
        /\ r_env.timeout # EnvJunk
        /\ (r_index < 0 \/ r_index >= r_total)) => pcH = "exit2"

\* C18: run completion. Whatever the remote API does, no run ends in a crash
\* unless its configuration is in error, and a run that ends has emitted both
\* outputs.
C18_RunCompletion ==
    /\ pcH = "crashed" => r_env.timeout = EnvJunk
    /\ pcH = "done" => emitted

\* C20: zero-yield only when all families are empty. A harvested document
\* that got rows from a row family has no zero-yield row, and every harvested
\* document is in exactly one of the two outputs.
C20_ExactlyOneOutput ==
    \A i \in 1 .. Len(harvested) :
        LET doc == harvested[i].doc
        IN  /\ ~NoFamilyHasRows(harvested[i]) => ZeroRowsOf(doc) = {}
            /\ (CodeRowsOf(doc) # {}) # (ZeroRowsOf(doc) # {})

C20_Witness ==
    /\ pcH = "done"
    /\ orchestrator = "run_once"
    /\ Len(harvested) = 2
    /\ ~NoFamilyHasRows(harvested[1])
    /\ \E k \in DOMAIN harvested[1].pattern : harvested[1].pattern[k] = "failed"
    /\ EveryFamilyFailed(harvested[2])
    /\ Len(nocode_rows) = 1
    /\ code_rows # <<>>

\* A change record read the other way round: Added and Removed exchanged,
\* FlagChanged kept, prev_flag and curr_flag exchanged, the key kept.
Mirror(c) ==
    [c EXCEPT !.change_type = IF @ = Added THEN Removed
                              ELSE IF @ = Removed THEN Added ELSE @,
              !.prev_flag = c.curr_flag,
              !.curr_flag = c.prev_flag]

\* C25: the diff is antisymmetric. For the baseline and the snapshot main
\* has diffed, compute_changes with its two arguments exchanged gives a
\* record for the same keys, in the same order, and each is the record of
\* the run read the other way round. The same holds with the rows of the
\* merged harvest as they are (padded cells, missing columns) for a snapshot.
C25_DiffAntisymmetric ==
    Diffed =>
        LET prev == ReadCsv(prev_csv)
            curr == NormalizeRows(current_csv.rows)
            forward == ComputeChanges(prev, curr)
            backward == ComputeChanges(curr, prev)
            raw_forward == ComputeChanges(prev, current_csv.rows)
            raw_backward == ComputeChanges(current_csv.rows, prev)
        IN  /\ changes_file = WriteCsv(CHG_HEADER, forward)
            /\ Len(backward) = Len(forward)
            /\ \A i \in 1 .. Len(forward) : backward[i] = Mirror(forward[i])
            /\ Len(raw_backward) = Len(raw_forward)
            /\ \A i \in 1 .. Len(raw_forward) : raw_backward[i] = Mirror(raw_forward[i])

\* A run has diffed a snapshot against a baseline and reported an Added, a
\* Removed and a FlagChanged.
C25_Witness ==
    /\ Diffed
    /\ \A ct \in {Added, Removed, FlagChanged} :
          \E i \in 1 .. Len(changes_file.rows) : changes_file.rows[i].change_type = ct

\* The coverage_flag of the last row of a snapshot that has the key k, None
\* when no row has it.
LastFlag(rows, k) ==
    LET at == {i \in 1 .. Len(rows) : SnapKey(rows[i]) = k}
    IN  IF at = {} THEN None
        ELSE rows[CHOOSE i \in at : \A j \in at : j <= i].coverage_flag

\* C26: diff with duplicate keys. Whatever rows of one key the baseline and
\* the snapshot hold, the change log has at most one record for the key, it
\* has one exactly when the flag of the last row of the key differs between
\* the two (a missing key differing from any flag), and the record carries
\* those last flags: a row that a later row of its key follows never shows.
C26_LastRowWins ==
    Diffed =>
        LET ch == changes_file.rows
            prev == prev_csv.rows
            curr == norm_file.rows
        IN  /\ \A i, j \in 1 .. Len(ch) : RecordKey(ch[i]) = RecordKey(ch[j]) => i = j
            /\ \A k \in SnapKeys(prev) \cup SnapKeys(curr) :
                  LET pf == LastFlag(prev, k)
                      cf == LastFlag(curr, k)
                      recs == {i \in 1 .. Len(ch) : RecordKey(ch[i]) = k}
                  IN  /\ (recs # {}) <=> (pf # cf)
                      /\ \A i \in recs :
                            /\ ch[i].prev_flag = (IF pf = None THEN Empty ELSE pf)
                            /\ ch[i].curr_flag = (IF cf = None THEN Empty ELSE cf)

\* The snapshot holds two rows of one key with differing flags, the baseline
\* has the key with the flag of the later row, and the change log has no
\* record for the key.
C26_Witness ==
    /\ Diffed
    /\ \E i, j \in 1 .. Len(norm_file.rows) :
          /\ i < j
          /\ SnapKey(norm_file.rows[i]) = SnapKey(norm_file.rows[j])
          /\ norm_file.rows[i].coverage_flag # norm_file.rows[j].coverage_flag
          /\ LastFlag(prev_csv.rows, SnapKey(norm_file.rows[j]))
                = norm_file.rows[j].coverage_flag
          /\ \A c \in 1 .. Len(changes_file.rows) :
                RecordKey(changes_file.rows[c]) # SnapKey(norm_file.rows[j])

\* The query a request is sent with: the library leaves out a parameter
\* whose value is None.
QueryOf(params) == [k \in {x \in DOMAIN params : params[x] # None} |-> params[k]]

\* The identifier keys of a request.
IdKeys == {"article_id", "document_id", "document_display_id"}

\* C24: no unfiltered probe. Every request of the table resolver is sent with
\* a query of exactly one parameter, an identifier key with a non-empty
\* value; and a getter called for a document that has no non-empty value
\* under any identifier key issues no request and returns the empty list.
C24_NoUnfilteredProbe ==
    /\ \A j \in 1 .. Len(calls) :
          LET query == QueryOf(calls[j].params)
          IN  /\ Cardinality(DOMAIN query) = 1
              /\ \A k \in DOMAIN query : k \in IdKeys /\ query[k] # Empty
    /\ (pcR = "done" /\ \A k \in IdKeys : ids[k] \in {None, Empty}) =>
          /\ calls = <<>>
          /\ ret = [kind |-> "rows", rows |-> <<>>]

\* A getter has answered for a document whose numeric ids are empty or
\* missing: it asked both endpoints, each time for the display id alone.
C24_Witness ==
    /\ pcR = "done"
    /\ ids.article_id = Empty
    /\ ids.document_id = None
    /\ Len(calls) = 2
    /\ \A j \in 1 .. 2 : calls[j].key = "document_display_id"

\* The rows of a list, as a set.
ToSet(rows) == {rows[i] : i \in 1 .. Len(rows)}

\* Every order of the items of a list.
RECURSIVE Perms(_)
Perms(l) ==
    IF l = <<>> THEN {<<>>}
    ELSE UNION {{<<l[i]>> \o p :
                   p \in Perms(SubSeq(l, 1, i - 1) \o SubSeq(l, i + 1, Len(l)))} :
                i \in 1 .. Len(l)}

\* l with the items at positions i and j exchanged, and l from position i on
\* followed by its start.
Swapped(l, i, j) ==
    [k \in 1 .. Len(l) |-> IF k = i THEN l[j] ELSE IF k = j THEN l[i] ELSE l[k]]
Rotated(l, i) == SubSeq(l, i, Len(l)) \o SubSeq(l, 1, i - 1)
Reversed(l) == [k \in 1 .. Len(l) |-> l[Len(l) + 1 - k]]

\* The orders a list is processed in: every order of a list of up to
\* MaxPermuted items; of a longer one the reversal, the rotations and the
\* exchanges of two items, so that every item comes before every other one.
Orders(l) ==
    IF Len(l) <= MaxPermuted THEN Perms(l)
    ELSE {Reversed(l)} \cup {Rotated(l, i) : i \in 1 .. Len(l)}
         \cup {Swapped(l, p[1], p[2]) :
                  p \in {q \in (1 .. Len(l)) \X (1 .. Len(l)) : q[1] < q[2]}}

\* The two outputs of the document loop run over the documents of work, in
\* the order of work, against the remote API that gave each its pattern.
RECURSIVE RunOver(_, _)
RunOver(s, work) ==
    IF work = <<>> THEN [code |-> <<>>, nocode |-> <<>>]
    ELSE LET out == DocOutput(s, Head(work).doc, ByEp(Head(work).doc, Head(work).pattern))
             rest == RunOver(s, Tail(work))
         IN  [code |-> out.code \o rest.code, nocode |-> out.nocode \o rest.nocode]

C23_PartialOutputValid ==
    (orchestrator = "harvest_shard" /\ pcH = "crashed" /\ r_files # "none") =>
        LET before == RunOver(orchestrator, harvested)
        IN  /\ emitted
            /\ r_files = "closed"
            /\ Len(code_rows) >= Len(before.code)
            /\ SubSeq(code_rows, 1, Len(before.code)) = before.code
            /\ nocode_rows = before.nocode
            /\ \A i \in 1 .. Len(harvested) :
                  LET doc == harvested[i].doc
                  IN  (CodeRowsOf(doc) # {}) # (ZeroRowsOf(doc) # {})

\* harvest_shard stopped at its second document after writing some of its
\* rows; the first document had been written.
C23_Witness ==
    /\ orchestrator = "harvest_shard"
    /\ pcH = "crashed"
    /\ r_files = "closed"
    /\ Len(harvested) = 1
    /\ Len(nocode_rows) = 1
    /\ Len(code_rows) = 2

=============================================================================
